---------------------------- MODULE Spec2Model ----------------------------
(***************************************************************************)
(* Walk-forward optimisation callback of the dash application              *)
(* (src/src/callbacks/backtest.py): window splitting, parameter grid,      *)
(* in-sample sweep, selection, out-of-sample apply and sweep, cache write  *)
(* and report tables.                                                      *)
(*                                                                         *)
(* Numbers.  The code computes the window length and the window starts in  *)
(* binary floating point.  The model computes them in exact integer        *)
(* arithmetic on millionths and lists the few places where the float       *)
(* result differs from the exact one (exact ties); the lists were obtained *)
(* by evaluating the code's float expressions for every input up to 400.   *)
(*                                                                         *)
(* Library results.  Indicator values, signals and portfolio metrics are   *)
(* computed by vectorbt/talib from prices.  The model keeps which price    *)
(* range and which parameter combination every portfolio column was        *)
(* simulated with, and takes the metric value of a column as an input      *)
(* drawn from MetricValues (see MetricSeries).                             *)
(***************************************************************************)
EXTENDS Integers, Sequences, FiniteSets, TLC

VARIABLES
    pc,                     \* last completed stage of perform_backtest
    error,                  \* exception that ended the request, or "none"
    n_clicks,               \* callback inputs: clicks of the run button so far (0: never clicked)
    session_id,
    selected_strategy,
    nwindows,
    insample,
    len_df,                 \* len(df): number of bars of the fetched series
    selected_range,
    selected_metric,
    in_price,               \* per window: <<first, last>> row of the in-sample part
    out_price,              \* per window: <<first, last>> row of the out-of-sample part
    parameter_values,
    pf_insample,
    outsample_parameters,
    pf_outsample,
    pf_outsample_optimized,
    optimal_parameters,
    cache,                  \* the result cache: key -> entry
    outputs,                \* what the callback returned
    ca_args,                \* closed_arange called on its own: arguments
    ca_result,              \*   and result
    other,                  \* a second request running at the same time
    got,                    \* what the plotting callback read from the cache
    selected_timeframe,     \* lines 78-82 on their own: the timeframe
    time_interval,          \*   and the freq given to the simulator
    simulator,              \* the statistics the simulator yields besides the optimised one
    indicators,             \* signal lines on their own: the indicator series of one column
    signals,                \*   and the entries and exits computed from them
    window_plot,            \* what plot_windows computed for the window plot
    oracle,                 \* what the simulator yields on the session's prices, where it is fixed beforehand
    first                   \* the outcome of the request before the present one

vars == <<pc, error, n_clicks, session_id, selected_strategy, nwindows, insample, len_df,
          selected_range, selected_metric, in_price, out_price, parameter_values,
          pf_insample, outsample_parameters, pf_outsample, pf_outsample_optimized,
          optimal_parameters, cache, outputs, ca_args, ca_result, other, got,
          selected_timeframe, time_interval, simulator, indicators, signals,
          window_plot, oracle, first>>

-----------------------------------------------------------------------------
(* Bounds of the model *)

\* longest price series whose split is enumerated
MaxLen == 160
\* largest stop (and start) given to closed_arange on its own
MaxStop == 12
\* largest step given to closed_arange on its own
MaxStep == 4
\* metric values of a portfolio column are drawn from 0..MaxMetric
MaxMetric == 1
\* largest number of minutes or hours in a timeframe
MaxBarCount == 60
\* indicator values are drawn from 0..MaxLevel
MaxLevel == 2

-----------------------------------------------------------------------------
(* Program constants *)

\* dbc.Input(min=4, max=15, ...) of nwindows_input
MinWindows == 4
MaxWindows == 15
\* cache.set(session_id, pickled_portfolio, timeout=7200)
CacheTimeout == 7200
\* closed_arange(..., 10, np.int16) for the SMA and EMA periods
PeriodStep == 10
\* closed_arange(..., 2, np.int16) for the RSI thresholds
RsiStep == 2

InsampleChoices == {50, 55, 60, 65, 70, 75, 80, 85, 90}

-----------------------------------------------------------------------------
(* Arithmetic helpers *)

Million == 1000 * 1000

\* Python's round() and numpy.round(): nearest integer, exact halves to the even one.
RoundHalfEven(a, b) ==
    LET q == a \div b
        r == a % b
    IN  IF 2 * r < b THEN q
        ELSE IF 2 * r > b THEN q + 1
        ELSE IF q % 2 = 0 THEN q ELSE q + 1

\* (13 / (9 * pi)) * atan(nwindows), in millionths
AtanFactor(n) ==
    CASE n = 8  -> 665046
      [] n = 9  -> 671344
      [] n = 10 -> 676396
      [] n = 11 -> 680539
      [] n = 12 -> 683995
      [] n = 13 -> 686924
      [] n = 14 -> 689436
      [] n = 15 -> 691615
      [] OTHER  -> 693523

factors == <<375000, 500000, 560000, 600000, 625000, 640000>>

\* overlap_factor whose closed form is capped at the table's last value
overlap_factor_capped(n) ==
    IF n < 8
    THEN factors[(n - 2) + 1]
    ELSE factors[Len(factors)]

\* overlap_factor(nwindows), in millionths
overlap_factor(n) ==
    IF n < 8
    THEN factors[(n - 2) + 1]
    ELSE AtanFactor(n)

\* round(len(df) / ((1 - overlap_factor(nwindows)) * nwindows)).
\* For nwindows = 4 the float product (1 - .56) * 4 is 1.7599999999999998, just
\* below 1.76, so a quotient that is an exact half in the rationals lies above
\* the half in floating point and is rounded up.
window_len(len, n) ==
    LET num == len * Million
        den == (Million - overlap_factor(n)) * n
    IN  IF n = 4 /\ 2 * (num % den) = den
        THEN (num \div den) + 1
        ELSE RoundHalfEven(num, den)

-----------------------------------------------------------------------------
(* closed_arange *)

RECURSIVE arange(_, _, _)
\* numpy.arange(start, stop, step): start, start + step, ... below stop
arange(start, stop, step) ==
    IF start >= stop THEN <<>>
    ELSE <<start>> \o arange(start + step, stop, step)

\* closed_arange without lines 33-35: the half-open numpy.arange
half_open_arange(start, stop, step) ==
    LET array == arange(start, stop, step)
    IN  IF Len(array) = 0
        THEN [raised |-> "IndexError", value |-> <<>>]
        ELSE [raised |-> "none", value |-> array]

\* closed_arange that appends stop whether or not it lies on the step lattice
closed_arange_always_stop(start, stop, step) ==
    LET array == arange(start, stop, step)
    IN  IF Len(array) = 0
        THEN [raised |-> "IndexError", value |-> <<>>]
        ELSE [raised |-> "none", value |-> array \o <<stop>>]

\* closed_arange(start, stop, step): the array returned, or the exception raised
\* (array[-1] of an empty array raises IndexError)
closed_arange(start, stop, step) ==
    LET array == arange(start, stop, step)
    IN  IF Len(array) = 0
        THEN [raised |-> "IndexError", value |-> <<>>]
        ELSE IF array[Len(array)] + step <= stop
             THEN [raised |-> "none", value |-> array \o <<stop>>]
             ELSE [raised |-> "none", value |-> array]

-----------------------------------------------------------------------------
(* vectorbt rolling_split, as called on line 75 *)

\* numpy.round(numpy.linspace(0, last, n))[i], i = 0..n-1.  The listed <<n, last>>
\* are the exact halves (at i = 7 of 15) that the float product i * step puts on
\* the other side of the half than round-half-even does.
LinspaceFloatTies == {<<15, 29>>, <<15, 115>>, <<15, 225>>, <<15, 251>>, <<15, 253>>}

linspace_round(last, n, i) ==
    LET exact == RoundHalfEven(i * last, n - 1)
    IN  IF <<n, last>> \in LinspaceFloatTies /\ 2 * ((i * last) % (n - 1)) = n - 1
        THEN IF exact % 2 = 0
             THEN (IF exact = (i * last) \div (n - 1) THEN exact + 1 ELSE exact - 1)
             ELSE exact
        ELSE exact

\* math.floor((insample / 100) * range_len).  0.7 is 0.69999999999999996 as a
\* float; for the listed lengths the float product falls just below the integer.
FloorFloatShort == {90, 170, 180, 330, 340, 350, 360}

\* the split with the two set lengths exchanged: the first set gets 1 - insample / 100
set_len_outsample(pct, range_len) == ((100 - pct) * range_len) \div 100

set_len(pct, range_len) ==
    IF pct = 70 /\ range_len \in FloorFloatShort
    THEN ((pct * range_len) \div 100) - 1
    ELSE (pct * range_len) \div 100

\* window starts spread over all rows instead of over the rows a window can start at
window_start_unclipped(len, n, wlen, i) == linspace_round(len - 1, n, i - 1)

\* the start row of window i (1..n): start_idxs[idxs[i - 1]]
window_start(len, n, wlen, i) == linspace_round(len - wlen, n, i - 1)

\* close.vbt.rolling_split(n=n, set_lens=(pct / 100,), window_len=wlen):
\* the exception raised, or per window <<in-sample range, out-of-sample range>>
rolling_split(len, n, pct, wlen) ==
    LET nstarts == len - wlen + 1             \* len(start_idxs)
        inlen   == set_len(pct, wlen)
        failed  == \/ wlen < 1 \/ nstarts < 1       \* no range of at least min_len
                   \/ n > nstarts                   \* n bigger than the number of windows
                   \/ inlen = 0                     \* set 0 is empty
                   \/ inlen >= wlen                 \* range too short to split
    IN  IF failed
        THEN [raised |-> "ValueError", value |-> <<>>]
        ELSE [raised |-> "none",
              value  |-> [i \in 1..n |->
                            LET s == window_start(len, n, wlen, i)
                            IN  << <<s, s + inlen - 1>>, <<s + inlen, s + wlen - 1>> >>]]

-----------------------------------------------------------------------------
(* Parameter grid, portfolios and selection *)

Strategies == {"SMA Crossover", "EMA Crossover", "RSI", "MACD"}
Crossovers == {"SMA Crossover", "EMA Crossover"}
Metrics    == {"max_drawdown", "total_return", "sharpe_ratio"}
SessionIds == {"s1", "s2"}

MetricValues == 0..MaxMetric

RECURSIVE combs_from(_, _, _)
combs_from(values, i, j) ==
    IF i >= Len(values) THEN <<>>
    ELSE IF j > Len(values) THEN combs_from(values, i + 1, i + 2)
    ELSE << <<values[i], values[j]>> >> \o combs_from(values, i, j + 1)

RECURSIVE combs_wr_from(_, _, _)
combs_wr_from(values, i, j) ==
    IF i > Len(values) THEN <<>>
    ELSE IF j > Len(values) THEN combs_wr_from(values, i + 1, i + 1)
    ELSE << <<values[i], values[j]>> >> \o combs_wr_from(values, i, j + 1)

\* itertools.combinations_with_replacement(values, 2): positions i <= j
combinations_with_replacement(values) == combs_wr_from(values, 1, 1)

\* itertools.combinations(values, 2), which is also the order of run_combs:
\* the pairs of positions i < j in lexicographic order
combinations(values) == combs_from(values, 1, 2)

\* lines 127-133: the RSI entry and exit lists
rsi_parameter_values(raw_parameter_values) ==
    LET parameter_combinations == combinations(raw_parameter_values)
    IN  << [k \in 1..Len(parameter_combinations) |-> parameter_combinations[k][1]],
           [k \in 1..Len(parameter_combinations) |-> parameter_combinations[k][2]] >>

\* The combinations a full sweep evaluates, in column order.
grid_combinations(strategy, params) ==
    IF strategy \in Crossovers
    THEN combinations(params)                                      \* run_combs
    ELSE [k \in 1..Len(params[1]) |-> <<params[1][k], params[2][k]>>]  \* one per list element

\* backtest_windows without per_column: every selected combination on every window
backtest_windows_cross(strategy, price, params, all_periods) ==
    LET n     == Len(price)
        combs == IF all_periods
                 THEN grid_combinations(strategy, params)
                 ELSE [k \in 1..Len(params[1]) |-> <<params[1][k], params[2][k]>>]
    IN  [c \in 1..(Len(combs) * n) |->
            [params    |-> combs[((c - 1) \div n) + 1],
             split_idx |-> ((c - 1) % n) + 1,
             rows      |-> price[((c - 1) % n) + 1]]]

\* backtest_windows(price, params, all_periods): the columns of the portfolio.
\* all_periods = TRUE: every combination on every window, combination-major.
\* all_periods = FALSE: params is the 2 x N array of selected parameters and
\* column i is simulated with params[.][i] (per_column=True for the moving
\* averages, broadcasting of the threshold array along the columns for RSI).
backtest_windows(strategy, price, params, all_periods) ==
    LET n == Len(price)
    IN  IF all_periods
        THEN LET combs == grid_combinations(strategy, params)
             IN  [c \in 1..(Len(combs) * n) |->
                    [params    |-> combs[((c - 1) \div n) + 1],
                     split_idx |-> ((c - 1) % n) + 1,
                     rows      |-> price[((c - 1) % n) + 1]]]
        ELSE [i \in 1..n |->
                [params    |-> <<params[1][i], params[2][i]>>,
                 split_idx |-> i,
                 rows      |-> price[i]]]

\* The metric series a sweep can yield: one value per column.  The values of the
\* odd windows are drawn freely, one per combination, and so are those of the
\* even windows; windows of the same parity get the same values.
Parities == {"odd", "even"}
ParityOf(i) == IF i % 2 = 1 THEN "odd" ELSE "even"

MetricSeries(ncombs, n) ==
    { [c \in 1..(ncombs * n) |->
          prof[ParityOf(((c - 1) % n) + 1)][((c - 1) \div n) + 1]] :
      prof \in [Parities -> [1..ncombs -> MetricValues]] }

\* the column positions of one split_idx group, and the extreme value in it
group(pf, i) == {c \in 1..Len(pf.columns) : pf.columns[c].split_idx = i}

\* the last position of the maximum instead of the first
idxmax_last(pf, i) ==
    CHOOSE c \in group(pf, i) :
        /\ \A d \in group(pf, i) : pf.metric[d] <= pf.metric[c]
        /\ \A d \in group(pf, i) : d > c => pf.metric[d] # pf.metric[c]

\* Series.idxmax() / idxmin() of one group: first position of the extreme value
idxmax(pf, i) ==
    CHOOSE c \in group(pf, i) :
        /\ \A d \in group(pf, i) : pf.metric[d] <= pf.metric[c]
        /\ \A d \in group(pf, i) : d < c => pf.metric[d] # pf.metric[c]

idxmin(pf, i) ==
    CHOOSE c \in group(pf, i) :
        /\ \A d \in group(pf, i) : pf.metric[d] >= pf.metric[c]
        /\ \A d \in group(pf, i) : d < c => pf.metric[d] # pf.metric[c]

\* the selection without the max_drawdown branch
optimal_column_max(pf, i, metric) == idxmax(pf, i)

\* the column chosen for window i
optimal_column(pf, i, metric) ==
    IF metric = "max_drawdown" THEN idxmin(pf, i) ELSE idxmax(pf, i)

\* get_optimal_parameters(accessed_metric): the 2 x N array of parameters
get_optimal_parameters(pf, metric, n) ==
    << [i \in 1..n |-> pf.columns[optimal_column(pf, i, metric)].params[1]],
       [i \in 1..n |-> pf.columns[optimal_column(pf, i, metric)].params[2]] >>

\* pf.dumps(): the pickled portfolio
dumps(pf) == [pickle |-> pf.columns]

-----------------------------------------------------------------------------
(* The requests that are enumerated *)

\* window counts and series lengths of the requests run through the whole callback
SimWindows == {MinWindows}
SimLens    == {0, MaxLen}
SimInsample == {70}

\* slider ranges [minimum, maximum] of the requests
RangeChoices(strategy) ==
    IF strategy = "RSI"
    THEN {<<20, 20>>, <<20, 21>>, <<20, 22>>, <<20, 24>>}
    ELSE {<<10, 10>>, <<10, 15>>, <<10, 20>>, <<10, 25>>, <<10, 30>>}

\* the ranges whose grid has three combinations; they are run with the SMA
\* and RSI strategies of session "s1"
WideRanges == {<<10, 30>>, <<20, 24>>}

NoPortfolio == [columns |-> <<>>, metric |-> <<>>]
NoEntry     == [present |-> FALSE, value |-> dumps(NoPortfolio), timeout |-> 0]
NoAverages  == [annualized_return |-> 0, average_return |-> 0, average_sharpe |-> 0,
                average_max_drawdown |-> 0]
NoOutputs   == [returned |-> FALSE, outsample_df |-> <<>>, comparison_df |-> <<>>,
                averages |-> NoAverages, loading |-> TRUE]

\* the largest number of combinations in a grid of the enumerated requests
MaxCombs == 3

\* a statistic that is 1 for one combination of the grid and 0 for the others
OneHot(hot) == [c \in 1..MaxCombs |-> IF c = hot THEN 1 ELSE 0]

\* the simulator of the requests whose report values are not looked at
PlainSimulator ==
    [total_return |-> OneHot(1), sharpe_ratio |-> OneHot(1), max_drawdown |-> OneHot(1),
     benchmark_return |-> 0]

\* a portfolio cached by an earlier request of session "s1"
EarlierPortfolio ==
    [columns |-> [i \in 1..MinWindows |-> [params |-> <<10, 20>>, split_idx |-> i, rows |-> <<i, i + 1>>]],
     metric  |-> <<>>]

\* the cache when the request starts: session "s1" has run before, "s2" has not
InitialCache ==
    [s \in SessionIds |-> IF s = "s1"
                          THEN [present |-> TRUE, value |-> dumps(EarlierPortfolio), timeout |-> CacheTimeout]
                          ELSE NoEntry]

-----------------------------------------------------------------------------
(* perform_backtest *)

Fail(exception) ==
    /\ pc' = "failed"
    /\ error' = exception

\* what the callbacks next to perform_backtest hold
views == <<window_plot, oracle, first>>

inputs == <<n_clicks, session_id, selected_strategy, nwindows, insample, len_df, selected_range, selected_metric,
            simulator>>
harness == <<ca_args, ca_result, other, got, selected_timeframe, time_interval,
             indicators, signals, views>>

\* a split that only runs once the run button has been clicked
SplitAfterClick ==
    /\ pc = "start"
    /\ n_clicks > 0
    /\ LET split == rolling_split(len_df, nwindows, insample, window_len(len_df, nwindows))
       IN  IF split.raised # "none"
           THEN /\ Fail(split.raised)
                /\ UNCHANGED <<in_price, out_price>>
           ELSE /\ pc' = "split"
                /\ in_price'  = [i \in 1..nwindows |-> split.value[i][1]]
                /\ out_price' = [i \in 1..nwindows |-> split.value[i][2]]
                /\ UNCHANGED error
    /\ UNCHANGED <<inputs, parameter_values, pf_insample, outsample_parameters, pf_outsample,
                   pf_outsample_optimized, optimal_parameters, cache, outputs, harness>>

\* lines 72-75: window length and rolling_split
Split ==
    /\ pc = "start"
    /\ LET split == rolling_split(len_df, nwindows, insample, window_len(len_df, nwindows))
       IN  IF split.raised # "none"
           THEN /\ Fail(split.raised)
                /\ UNCHANGED <<in_price, out_price>>
           ELSE /\ pc' = "split"
                /\ in_price'  = [i \in 1..nwindows |-> split.value[i][1]]
                /\ out_price' = [i \in 1..nwindows |-> split.value[i][2]]
                /\ UNCHANGED error
    /\ UNCHANGED <<inputs, parameter_values, pf_insample, outsample_parameters, pf_outsample,
                   pf_outsample_optimized, optimal_parameters, cache, outputs, harness>>

\* lines 86-139: the strategy branch builds parameter_values and defines
\* backtest_windows; no branch is taken for a strategy that is none of the three.
BuildGrid ==
    /\ pc = "split"
    /\ IF selected_strategy \in Crossovers
       THEN LET grid == closed_arange(selected_range[1], selected_range[2], PeriodStep)
            IN  IF grid.raised # "none"
                THEN Fail(grid.raised) /\ UNCHANGED parameter_values
                ELSE pc' = "grid" /\ parameter_values' = grid.value /\ UNCHANGED error
       ELSE IF selected_strategy = "RSI"
       THEN LET raw == closed_arange(selected_range[1], selected_range[2], RsiStep)
            IN  IF raw.raised # "none"
                THEN Fail(raw.raised) /\ UNCHANGED parameter_values
                ELSE pc' = "grid" /\ parameter_values' = rsi_parameter_values(raw.value)
                     /\ UNCHANGED error
       ELSE pc' = "grid" /\ UNCHANGED <<parameter_values, error>>
    /\ UNCHANGED <<inputs, in_price, out_price, pf_insample, outsample_parameters, pf_outsample,
                   pf_outsample_optimized, optimal_parameters, cache, outputs, harness>>

\* the values of the optimised statistic a full sweep can yield: those fixed
\* beforehand for the session's prices (the simulator computes them from the
\* prices and the parameters alone), every series of MetricSeries otherwise
SweepSeries(kind, ncombs, n) ==
    IF oracle[kind] = <<>> THEN MetricSeries(ncombs, n) ELSE {oracle[kind]}

\* whether a full sweep can run: backtest_windows is bound (else line 154 raises
\* UnboundLocalError) and the grid has a combination (else the indicator run has
\* no parameters and raises)
sweep_exception ==
    IF selected_strategy \notin (Crossovers \cup {"RSI"}) THEN "UnboundLocalError"
    ELSE IF Len(grid_combinations(selected_strategy, parameter_values)) = 0 THEN "ValueError"
    ELSE "none"

\* an in-sample sweep that first replaces the session's cache entry by a placeholder
InSampleSweepResettingEntry ==
    /\ pc = "grid"
    /\ cache' = [cache EXCEPT ![session_id] =
                    [present |-> TRUE, value |-> dumps(NoPortfolio), timeout |-> CacheTimeout]]
    /\ IF sweep_exception # "none"
       THEN Fail(sweep_exception) /\ UNCHANGED pf_insample
       ELSE /\ \E metric \in SweepSeries("insample", Len(grid_combinations(selected_strategy, parameter_values)), nwindows) :
                 pf_insample' = [columns |-> backtest_windows(selected_strategy, in_price, parameter_values, TRUE),
                                 metric  |-> metric]
            /\ pc' = "in_swept"
            /\ UNCHANGED error
    /\ UNCHANGED <<inputs, in_price, out_price, parameter_values, outsample_parameters, pf_outsample,
                   pf_outsample_optimized, optimal_parameters, outputs, harness>>

\* line 154: pf_insample = backtest_windows(in_price, parameter_values)
InSampleSweep ==
    /\ pc = "grid"
    /\ IF sweep_exception # "none"
       THEN Fail(sweep_exception) /\ UNCHANGED pf_insample
       ELSE /\ \E metric \in SweepSeries("insample", Len(grid_combinations(selected_strategy, parameter_values)), nwindows) :
                 pf_insample' = [columns |-> backtest_windows(selected_strategy, in_price, parameter_values, TRUE),
                                 metric  |-> metric]
            /\ pc' = "in_swept"
            /\ UNCHANGED error
    /\ UNCHANGED <<inputs, in_price, out_price, parameter_values, outsample_parameters, pf_outsample,
                   pf_outsample_optimized, optimal_parameters, cache, outputs, harness>>

\* a selection whose tie-break depends on the session: the last position of
\* the maximum for session "s2"
SelectSeededBySession ==
    /\ pc = "in_swept"
    /\ outsample_parameters' =
          IF session_id = "s2"
          THEN << [i \in 1..nwindows |-> pf_insample.columns[idxmax_last(pf_insample, i)].params[1]],
                  [i \in 1..nwindows |-> pf_insample.columns[idxmax_last(pf_insample, i)].params[2]] >>
          ELSE get_optimal_parameters(pf_insample, selected_metric, nwindows)
    /\ pc' = "selected"
    /\ UNCHANGED <<error, inputs, in_price, out_price, parameter_values, pf_insample, pf_outsample,
                   pf_outsample_optimized, optimal_parameters, cache, outputs, harness>>

\* a selection that looks ahead: window i gets the best combination of in-sample
\* window i + 1, whose rows reach into the out-of-sample rows of window i
SelectOnNextWindow ==
    /\ pc = "in_swept"
    /\ outsample_parameters' =
          LET ahead(i) == IF i < nwindows THEN i + 1 ELSE i
          IN  << [i \in 1..nwindows |->
                    pf_insample.columns[optimal_column(pf_insample, ahead(i), selected_metric)].params[1]],
                 [i \in 1..nwindows |->
                    pf_insample.columns[optimal_column(pf_insample, ahead(i), selected_metric)].params[2]] >>
    /\ pc' = "selected"
    /\ UNCHANGED <<error, inputs, in_price, out_price, parameter_values, pf_insample, pf_outsample,
                   pf_outsample_optimized, optimal_parameters, cache, outputs, harness>>

\* line 155: outsample_parameters = get_optimal_parameters(pf_insample.deep_getattr(selected_metric))
Select ==
    /\ pc = "in_swept"
    /\ outsample_parameters' = get_optimal_parameters(pf_insample, selected_metric, nwindows)
    /\ pc' = "selected"
    /\ UNCHANGED <<error, inputs, in_price, out_price, parameter_values, pf_insample, pf_outsample,
                   pf_outsample_optimized, optimal_parameters, cache, outputs, harness>>

\* line 158: pf_outsample = backtest_windows(out_price, outsample_parameters, False).
\* The metric of pf_insample is not read after line 155; the model forgets it here.
OutSampleApply ==
    /\ pc = "selected"
    /\ pf_outsample' = [columns |-> backtest_windows(selected_strategy, out_price, outsample_parameters, FALSE),
                        metric  |-> <<>>]
    /\ pf_insample' = [pf_insample EXCEPT !.metric = <<>>]
    /\ pc' = "applied"
    /\ UNCHANGED <<error, inputs, in_price, out_price, parameter_values, outsample_parameters,
                   pf_outsample_optimized, optimal_parameters, cache, outputs, harness>>

\* line 161: pf_outsample_optimized = backtest_windows(out_price, parameter_values)
OutSampleSweep ==
    /\ pc = "applied"
    /\ \E metric \in SweepSeries("outsample", Len(grid_combinations(selected_strategy, parameter_values)), nwindows) :
          pf_outsample_optimized' =
              [columns |-> backtest_windows(selected_strategy, out_price, parameter_values, TRUE),
               metric  |-> metric]
    /\ pc' = "out_swept"
    /\ UNCHANGED <<error, inputs, in_price, out_price, parameter_values, pf_insample, outsample_parameters,
                   pf_outsample, optimal_parameters, cache, outputs, harness>>

\* line 162: optimal_parameters = get_optimal_parameters(pf_outsample_optimized.deep_getattr(selected_metric))
OutSampleSelect ==
    /\ pc = "out_swept"
    /\ optimal_parameters' = get_optimal_parameters(pf_outsample_optimized, selected_metric, nwindows)
    /\ pc' = "out_selected"
    /\ UNCHANGED <<error, inputs, in_price, out_price, parameter_values, pf_insample, outsample_parameters,
                   pf_outsample, pf_outsample_optimized, cache, outputs, harness>>

\* lines 165-166: pickled_portfolio = pf_outsample.dumps(); cache.set(session_id, ..., timeout=7200)
pickled_sweep == dumps(pf_outsample_optimized)

pickled_portfolio == dumps(pf_outsample)

CacheSet ==
    /\ pc = "out_selected"
    /\ cache' = [cache EXCEPT ![session_id] =
                    [present |-> TRUE, value |-> pickled_portfolio, timeout |-> CacheTimeout]]
    /\ pc' = "cached"
    /\ UNCHANGED <<error, inputs, in_price, out_price, parameter_values, pf_insample, outsample_parameters,
                   pf_outsample, pf_outsample_optimized, optimal_parameters, outputs, harness>>

\* The statistics read by lines 170-199.  The statistic the request optimised
\* on is the one the out-of-sample sweep yielded; any other statistic of a
\* column is what the simulator gives for the column's combination.  A column
\* of pf_outsample is simulated on the same window with one combination of the
\* grid, so its statistics are those of that column of pf_outsample_optimized.
\* the place in the grid of the combination of column c (columns are combination-major)
comb_index(c) == ((c - 1) \div nwindows) + 1

column_stat(name, c) ==
    IF name = selected_metric
    THEN pf_outsample_optimized.metric[c]
    ELSE simulator[name][comb_index(c)]

\* the column of the grid with the window and the combination of a column of
\* pf_outsample (the grid's columns are combination-major)
grid_column(column) ==
    CHOOSE c \in {(j - 1) * nwindows + column.split_idx :
                     j \in 1..(Len(pf_outsample_optimized.columns) \div nwindows)} :
        pf_outsample_optimized.columns[c].params = column.params

\* pf_outsample.<name>().values[k - 1]
window_stat(name, k) == column_stat(name, grid_column(pf_outsample.columns[k]))

\* pf_outsample.total_return().values, .sharpe_ratio().values, .max_drawdown().values
window_stats ==
    <<[k \in 1..nwindows |-> window_stat("total_return", k)],
      [k \in 1..nwindows |-> window_stat("sharpe_ratio", k)],
      [k \in 1..nwindows |-> window_stat("max_drawdown", k)]>>

\* pf_outsample_optimized.stats('total_return', agg_func=None), one value per column
grid_returns ==
    [c \in 1..Len(pf_outsample_optimized.columns) |-> column_stat("total_return", c)]

RECURSIVE SeqSum(_, _)
SeqSum(seq, k) == IF k = 0 THEN 0 ELSE SeqSum(seq, k - 1) + seq[k]

SetMax(S) == CHOOSE x \in S : \A y \in S : y <= x

RECURSIVE SetSum(_, _)
SetSum(seq, S) ==
    IF S = {} THEN 0
    ELSE LET c == CHOOSE x \in S : TRUE
         IN  seq[c] + SetSum(seq, S \ {c})

\* total / count as a percentage rounded to 2 decimals, in hundredths of a percent
Pct2(total, count) == RoundHalfEven(total * 100 * 100, count)

\* total / count rounded to 2 decimals, in hundredths
Hundredths(total, count) == RoundHalfEven(total * 100, count)

\* groupby("split_idx"): the k-th group is the one of the k-th smallest split_idx
group_key(pf, k) ==
    LET keys == {pf.columns[c].split_idx : c \in 1..Len(pf.columns)}
    IN  CHOOSE i \in keys : Cardinality({j \in keys : j < i}) = k - 1

\* the rows of the aggregate taken from chunks of consecutive columns
grouped_by_position(pf, k) ==
    {c \in 1..Len(pf.columns) :
        /\ c > (k - 1) * (Len(pf.columns) \div nwindows)
        /\ c <= k * (Len(pf.columns) \div nwindows)}

\* the columns of the k-th row of a groupby("split_idx") aggregate
grouped(pf, k) == group(pf, group_key(pf, k))

\* split_idx of the columns a cell was computed from
windows_of(pf, S) == {pf.columns[c].split_idx : c \in S}

\* lines 170-178: one row per window: window number, selected parameters, the
\* column of pf_outsample the statistics of the row come from, and its
\* statistics (stats = <<total returns, Sharpe ratios, max drawdowns>>)
outsample_df(stats) ==
    [k \in 1..nwindows |->
        [Window |-> k,
         params |-> <<outsample_parameters[1][k], outsample_parameters[2][k]>>,
         stats  |-> pf_outsample.columns[k],
         max_drawdown |-> Pct2(stats[3][k], 1),
         return       |-> Pct2(stats[1][k], 1),
         sharpe_ratio |-> Hundredths(stats[2][k], 1)]]

\* lines 180-186: one row per window: window number, out-of-sample-optimal
\* parameters, the largest and the mean total return of the grid on the window,
\* the return of the selected parameters and the benchmark return; each cell
\* with the windows of the columns it was computed from
comparison_df(stats, returns) ==
    [k \in 1..nwindows |->
        LET g == grouped(pf_outsample_optimized, k)
        IN  [Window |-> k,
             params |-> <<optimal_parameters[1][k], optimal_parameters[2][k]>>,
             optimal_return   |-> [value   |-> Pct2(SetMax({returns[c] : c \in g}), 1),
                                   windows |-> windows_of(pf_outsample_optimized, g)],
             return           |-> [value   |-> Pct2(stats[1][k], 1),
                                   windows |-> {pf_outsample.columns[k].split_idx}],
             average_return   |-> [value   |-> Pct2(SetSum(returns, g), Cardinality(g)),
                                   windows |-> windows_of(pf_outsample_optimized, g)],
             benchmark_return |-> [value   |-> Pct2(simulator.benchmark_return, 1),
                                   windows |-> windows_of(pf_outsample_optimized, g)]]]

\* lines 189-190: the trading days of the first out-of-sample window (daily bars)
outsample_num_days == out_price[1][2] - out_price[1][1] + 1

\* lines 196-199: annualized return in thousandths of a percent, the others in hundredths
averages(stats) ==
    [annualized_return    |-> RoundHalfEven(SeqSum(stats[1], nwindows) * 100 * 252 * 1000,
                                            nwindows * outsample_num_days),
     average_return       |-> Pct2(SeqSum(stats[1], nwindows), nwindows),
     average_sharpe       |-> Pct2(SeqSum(stats[2], nwindows), nwindows),
     average_max_drawdown |-> Pct2(SeqSum(stats[3], nwindows), nwindows)]

\* the tables built and returned right after line 162, before the cache write
AggregateBeforeCache ==
    /\ pc = "out_selected"
    /\ \E stats \in {window_stats}, returns \in {grid_returns} :
          outputs' = [returned |-> TRUE, outsample_df |-> outsample_df(stats),
                      comparison_df |-> comparison_df(stats, returns),
                      averages |-> averages(stats), loading |-> FALSE]
    /\ pc' = "done"
    /\ UNCHANGED <<error, inputs, in_price, out_price, parameter_values, pf_insample, outsample_parameters,
                   pf_outsample, pf_outsample_optimized, optimal_parameters, cache, harness>>

\* lines 169-246: the tables are built and returned with run_button.loading = False
Aggregate ==
    /\ pc = "cached"
    /\ \E stats \in {window_stats}, returns \in {grid_returns} :
          outputs' = [returned |-> TRUE, outsample_df |-> outsample_df(stats),
                      comparison_df |-> comparison_df(stats, returns),
                      averages |-> averages(stats), loading |-> FALSE]
    /\ pc' = "done"
    /\ UNCHANGED <<error, inputs, in_price, out_price, parameter_values, pf_insample, outsample_parameters,
                   pf_outsample, pf_outsample_optimized, optimal_parameters, cache, harness>>

-----------------------------------------------------------------------------
(* Specifications *)

NoState ==
    /\ pc = "start"
    /\ error = "none"
    /\ in_price = <<>>
    /\ out_price = <<>>
    /\ parameter_values = <<>>
    /\ pf_insample = NoPortfolio
    /\ outsample_parameters = <<>>
    /\ pf_outsample = NoPortfolio
    /\ pf_outsample_optimized = NoPortfolio
    /\ optimal_parameters = <<>>
    /\ outputs = NoOutputs

NotCalled == [called |-> FALSE, raised |-> "none", value |-> <<>>]

\* no second request
NoOther ==
    [session_id |-> "none", pc |-> "absent", error |-> "none",
     selected_strategy |-> "none", selected_range |-> <<0, 0>>, selected_metric |-> "none",
     nwindows |-> 0, insample |-> 0, len_df |-> 0,
     outsample_parameters |-> <<>>, pf_outsample |-> NoPortfolio]

\* the plotting callback is not reading
NoRead == [read |-> FALSE, key |-> "none", hit |-> FALSE, value |-> dumps(NoPortfolio)]

\* the timeframe '1d', and no time interval computed yet
Daily      == [count |-> 1, unit |-> "d"]
NoInterval == [called |-> FALSE, value |-> 0, unit |-> "none"]

\* no indicator series, and no signals computed yet
NoIndicators == [strategy |-> "none", real |-> <<>>, slow_real |-> <<>>,
                 entry_exit_values |-> <<0, 0>>]
NoSignals    == [called |-> FALSE, entries |-> <<>>, exits |-> <<>>]

\* plot_windows has not run
NoPlot == [called |-> FALSE, raised |-> "none", window_length |-> 0, value |-> <<>>]

\* the optimised statistic of the sweeps is not fixed beforehand
NoOracle == [insample |-> <<>>, outsample |-> <<>>]

\* no request before the present one
NoFirst == [ran |-> FALSE, kept |-> 0, session_id |-> "none", n_clicks |-> 0, pc |-> "start",
            error |-> "none", outsample_parameters |-> <<>>, outputs |-> NoOutputs]

NoViews ==
    /\ window_plot = NoPlot
    /\ oracle = NoOracle
    /\ first = NoFirst

NoTimeframe ==
    /\ NoViews
    /\ simulator = PlainSimulator
    /\ selected_timeframe = Daily
    /\ time_interval = NoInterval
    /\ indicators = NoIndicators
    /\ signals = NoSignals

NoHarness ==
    /\ ca_args = <<0, 1, 1>>
    /\ ca_result = NotCalled
    /\ other = NoOther
    /\ got = NoRead
    /\ NoTimeframe

\* one request, from the callback's inputs to its return or its exception
Init ==
    /\ NoState
    /\ NoHarness
    /\ n_clicks = 1
    /\ session_id \in SessionIds
    /\ selected_strategy \in Strategies
    /\ nwindows \in SimWindows
    /\ insample \in SimInsample
    /\ len_df \in SimLens
    /\ selected_range \in RangeChoices(selected_strategy)
    /\ selected_range \in WideRanges => (session_id = "s1" /\ selected_strategy # "EMA Crossover")
    /\ selected_metric \in Metrics
    /\ cache = InitialCache

Next ==
    \/ Split
    \/ BuildGrid
    \/ InSampleSweep
    \/ Select
    \/ OutSampleApply
    \/ OutSampleSweep
    \/ OutSampleSelect
    \/ CacheSet
    \/ Aggregate

Spec == Init /\ [][Next]_vars

\* The window splitter on every series length up to MaxLen, every window count
\* and every in-sample percentage of the dropdown.
InitSplit ==
    /\ NoState
    /\ NoHarness
    /\ n_clicks = 1
    /\ session_id = "s1"
    /\ selected_strategy = "SMA Crossover"
    /\ nwindows \in MinWindows..MaxWindows
    /\ insample \in InsampleChoices
    /\ len_df \in 0..MaxLen
    /\ selected_range = <<10, 30>>
    /\ selected_metric = "total_return"
    /\ cache = InitialCache

NextSplit == Split

SpecSplit == InitSplit /\ [][NextSplit]_vars

\* closed_arange called on its own with ca_args = <<start, stop, step>>
CallClosedArange ==
    /\ ~ca_result.called
    /\ ca_result' = [called |-> TRUE,
                     raised |-> closed_arange(ca_args[1], ca_args[2], ca_args[3]).raised,
                     value  |-> closed_arange(ca_args[1], ca_args[2], ca_args[3]).value]
    /\ UNCHANGED <<pc, error, inputs, in_price, out_price, parameter_values, pf_insample,
                   outsample_parameters, pf_outsample, pf_outsample_optimized, optimal_parameters,
                   cache, outputs, ca_args, other, got, selected_timeframe, time_interval,
                   indicators, signals, views>>

InitArange ==
    /\ NoState
    /\ ca_args \in (0..MaxStop) \X (0..MaxStop) \X (1..MaxStep)
    /\ ca_result = NotCalled
    /\ other = NoOther
    /\ got = NoRead
    /\ NoTimeframe
    /\ n_clicks = 1
    /\ session_id = "s1"
    /\ selected_strategy = "SMA Crossover"
    /\ nwindows = MinWindows
    /\ insample = 70
    /\ len_df = MaxLen
    /\ selected_range = <<10, 30>>
    /\ selected_metric = "total_return"
    /\ cache = InitialCache

NextArange == CallClosedArange

SpecArange == InitArange /\ [][NextArange]_vars

\* Requests on an empty series and on a series so short that a whole window has
\* fewer rows than the largest moving-average period of the grid.
ShortLens == {0, 40}

InitShort ==
    /\ NoState
    /\ NoHarness
    /\ n_clicks = 1
    /\ session_id \in SessionIds
    /\ selected_strategy \in Crossovers
    /\ nwindows = MinWindows
    /\ insample = 70
    /\ len_df \in ShortLens
    /\ selected_range = <<10, 30>>
    /\ selected_metric \in {"total_return", "max_drawdown"}
    /\ cache = InitialCache

NextShort == Next

SpecShort == InitShort /\ [][NextShort]_vars

\* Requests whose window count or in-sample percentage is outside what the
\* input widgets offer: <<nwindows, insample>>.  The callback receives whatever
\* the client posts.
OutOfRangeRequests == {<<3, 70>>, <<16, 70>>, <<4, 40>>}

InitOutOfRange ==
    /\ NoState
    /\ NoHarness
    /\ n_clicks = 1
    /\ session_id \in SessionIds
    /\ selected_strategy \in Crossovers
    /\ \E request \in OutOfRangeRequests :
          /\ nwindows = request[1]
          /\ insample = request[2]
    /\ len_df = MaxLen
    /\ selected_range \in {<<10, 20>>, <<10, 30>>}
    /\ selected_metric = "total_return"
    /\ cache = InitialCache

NextOutOfRange == Next

SpecOutOfRange == InitOutOfRange /\ [][NextOutOfRange]_vars

-----------------------------------------------------------------------------
(* Two requests at the same time.  The callback keeps everything it computes   *)
(* in local variables; the only object it shares with another invocation is    *)
(* the cache.  The first request takes the steps above; of the second request  *)
(* the model keeps the steps between which it touches the cache.               *)

\* the local variables of the first request
locals == <<pc, error, inputs, in_price, out_price, parameter_values, pf_insample,
            outsample_parameters, pf_outsample, pf_outsample_optimized, optimal_parameters, outputs>>

\* lines 72-162 of the second request: split, grid, in-sample sweep, selection
\* and out-of-sample apply, all on its own locals (the out-of-sample sweep of
\* lines 161-162 only feeds its tables, which are not kept)
OtherCompute ==
    /\ other.pc = "start"
    /\ \E split \in {rolling_split(other.len_df, other.nwindows, other.insample,
                                   window_len(other.len_df, other.nwindows))},
          array \in {closed_arange(other.selected_range[1], other.selected_range[2],
                                   IF other.selected_strategy = "RSI" THEN RsiStep ELSE PeriodStep)} :
          \E params \in {IF other.selected_strategy = "RSI"
                         THEN rsi_parameter_values(array.value)
                         ELSE array.value} :
             LET n      == other.nwindows
                 known  == other.selected_strategy \in (Crossovers \cup {"RSI"})
                 ncombs == Len(grid_combinations(other.selected_strategy, params))
                 raised == IF split.raised # "none" THEN split.raised
                           ELSE IF ~known THEN "UnboundLocalError"
                           ELSE IF array.raised # "none" THEN array.raised
                           ELSE IF ncombs = 0 THEN "ValueError"
                           ELSE "none"
             IN  IF raised # "none"
                 THEN other' = [other EXCEPT !.pc = "failed", !.error = raised]
                 ELSE \E in_p  \in {[i \in 1..n |-> split.value[i][1]]},
                         out_p \in {[i \in 1..n |-> split.value[i][2]]},
                         metric \in MetricSeries(ncombs, n) :
                         \E pf_in \in {[columns |-> backtest_windows(other.selected_strategy, in_p, params, TRUE),
                                        metric  |-> metric]} :
                            \E sel \in {get_optimal_parameters(pf_in, other.selected_metric, n)} :
                               other' = [other EXCEPT
                                           !.pc = "computed",
                                           !.outsample_parameters = sel,
                                           !.pf_outsample =
                                               [columns |-> backtest_windows(other.selected_strategy, out_p, sel, FALSE),
                                                metric  |-> <<>>]]
    /\ UNCHANGED <<locals, cache, got, ca_args, ca_result, selected_timeframe, time_interval,
                   indicators, signals, views>>

\* the second request writing under one fixed key instead of its session id
OtherCacheSetFixedKey ==
    /\ other.pc = "computed"
    /\ cache' = [cache EXCEPT !["s1"] =
                    [present |-> TRUE, value |-> dumps(other.pf_outsample), timeout |-> CacheTimeout]]
    /\ other' = [other EXCEPT !.pc = "cached"]
    /\ UNCHANGED <<locals, got, ca_args, ca_result, selected_timeframe, time_interval,
                   indicators, signals, views>>

\* lines 165-166 of the second request
OtherCacheSet ==
    /\ other.pc = "computed"
    /\ cache' = [cache EXCEPT ![other.session_id] =
                    [present |-> TRUE, value |-> dumps(other.pf_outsample), timeout |-> CacheTimeout]]
    /\ other' = [other EXCEPT !.pc = "cached"]
    /\ UNCHANGED <<locals, got, ca_args, ca_result, selected_timeframe, time_interval,
                   indicators, signals, views>>

\* lines 169-246 of the second request: it builds its tables and returns
OtherReturn ==
    /\ other.pc = "cached"
    /\ other' = [other EXCEPT !.pc = "done"]
    /\ UNCHANGED <<locals, cache, got, ca_args, ca_result, selected_timeframe, time_interval,
                   indicators, signals, views>>

\* timeout=7200 on line 166: when the time is over the cache drops the entry
Expire(key) ==
    /\ cache[key].present
    /\ cache' = [cache EXCEPT ![key] = NoEntry]
    /\ UNCHANGED <<locals, other, got, ca_args, ca_result, selected_timeframe, time_interval,
                   indicators, signals, views>>

\* backtest_plotting_callback (named on line 164): cache.get(session_id)
ReaderGet(key) ==
    /\ ~got.read
    /\ got' = [read |-> TRUE, key |-> key, hit |-> cache[key].present, value |-> cache[key].value]
    /\ UNCHANGED <<locals, other, cache, ca_args, ca_result, selected_timeframe, time_interval,
                   indicators, signals, views>>

\* the plotting callback returns
ReaderReturn ==
    /\ got.read
    /\ got' = NoRead
    /\ UNCHANGED <<locals, other, cache, ca_args, ca_result, selected_timeframe, time_interval,
                   indicators, signals, views>>

\* the inputs of the two requests: different session ids and different grids
ConcurrentRanges == {<<10, 10>>, <<10, 20>>}
OtherRanges      == {<<20, 20>>, <<20, 22>>}

InitConcurrent ==
    /\ NoState
    /\ ca_args = <<0, 1, 1>>
    /\ ca_result = NotCalled
    /\ got = NoRead
    /\ NoTimeframe
    /\ n_clicks = 1
    /\ session_id \in SessionIds
    /\ selected_strategy = "SMA Crossover"
    /\ nwindows = MinWindows
    /\ insample = 70
    /\ len_df = MaxLen
    /\ selected_range \in ConcurrentRanges
    /\ selected_metric = "max_drawdown"
    /\ cache = InitialCache
    /\ \E id \in SessionIds \ {session_id}, range \in OtherRanges :
          other = [NoOther EXCEPT
                     !.session_id = id, !.pc = "start",
                     !.selected_strategy = "RSI", !.selected_range = range, !.selected_metric = "sharpe_ratio",
                     !.nwindows = MinWindows + 1, !.insample = 50, !.len_df = MaxLen]

NextConcurrent ==
    \/ Split
    \/ BuildGrid
    \/ InSampleSweep
    \/ Select
    \/ OutSampleApply
    \/ OutSampleSweep
    \/ OutSampleSelect
    \/ CacheSet
    \/ Aggregate
    \/ OtherCompute
    \/ OtherCacheSet
    \/ OtherReturn
    \/ \E key \in SessionIds : Expire(key)
    \/ \E key \in SessionIds : ReaderGet(key)
    \/ ReaderReturn

SpecConcurrent == InitConcurrent /\ [][NextConcurrent]_vars

-----------------------------------------------------------------------------
\* Lines 77-84 on their own.  A timeframe such as '15m' is kept as its number
\* and its unit letter; a time interval is a number in ten-thousandths (the
\* code rounds to four decimals) and a unit letter.
TenThousand == 10 * 1000

\* lines 78-82: trading_day_conversion = 24 / 6.5 = 240 / 65;
\* '1d' stays '1d', otherwise "{}{}".format(round(int(selected_timeframe[:-1]) * 24 / 6.5, 4), 'm')
time_interval_of(timeframe) ==
    IF timeframe = Daily
    THEN [called |-> TRUE, value |-> 1 * TenThousand, unit |-> "d"]
    ELSE [called |-> TRUE,
          value  |-> RoundHalfEven(timeframe.count * 240 * TenThousand, 65),
          unit   |-> "m"]

CallTimeInterval ==
    /\ ~time_interval.called
    /\ time_interval' = time_interval_of(selected_timeframe)
    /\ UNCHANGED <<locals, cache, ca_args, ca_result, other, got, selected_timeframe,
                   indicators, signals, views>>

\* the timeframes: minutes and hours up to MaxBarCount, and '1d'
Timeframes ==
    {[count |-> c, unit |-> u] : c \in 1..MaxBarCount, u \in {"m", "h"}} \cup {Daily}

InitTimeframe ==
    /\ NoState
    /\ ca_args = <<0, 1, 1>>
    /\ ca_result = NotCalled
    /\ other = NoOther
    /\ got = NoRead
    /\ NoViews
    /\ selected_timeframe \in Timeframes
    /\ simulator = PlainSimulator
    /\ time_interval = NoInterval
    /\ indicators = NoIndicators
    /\ signals = NoSignals
    /\ n_clicks = 1
    /\ session_id = "s1"
    /\ selected_strategy = "SMA Crossover"
    /\ nwindows = MinWindows
    /\ insample = 70
    /\ len_df = MaxLen
    /\ selected_range = <<10, 30>>
    /\ selected_metric = "total_return"
    /\ cache = InitialCache

NextTimeframe == CallTimeInterval

SpecTimeframe == InitTimeframe /\ [][NextTimeframe]_vars

-----------------------------------------------------------------------------
(* Properties of the window splitter (checked under SpecSplit) *)

InLen(i)  == in_price[i][2] - in_price[i][1] + 1
OutLen(i) == out_price[i][2] - out_price[i][1] + 1

\* exactly nwindows pairs, each out-of-sample range right after its in-sample
\* range, all inside the rows 0..len_df-1
WindowsWellFormed ==
    /\ Len(in_price) = nwindows
    /\ Len(out_price) = nwindows
    /\ \A i \in 1..nwindows :
          /\ 0 <= in_price[i][1]
          /\ in_price[i][1] <= in_price[i][2]
          /\ out_price[i][1] = in_price[i][2] + 1
          /\ out_price[i][1] <= out_price[i][2]
          /\ out_price[i][2] <= len_df - 1

\* C3 as stated: for every window count 4..15 and every series length the split
\* yields exactly N adjacent in-sample/out-of-sample pairs inside the series.
C3_EveryLengthYieldsWindows ==
    pc # "start" => WindowsWellFormed

\* C3 amended: for every window count N in 4..15 and every series length
\* L >= N + 3 the split yields exactly N pairs, each out-of-sample range starting
\* right after its in-sample range and every pair inside rows 0..L-1; whenever
\* the split yields windows at all they have this shape.  For a series of at
\* most N + 1 rows rolling_split raises ValueError and there are no windows.
C3_SplitYieldsAdjacentPairsInBounds ==
    /\ pc = "split" => WindowsWellFormed
    /\ (pc # "start" /\ len_df >= nwindows + 3) => pc = "split"
    /\ (pc # "start" /\ len_df <= nwindows + 1) =>
          (pc = "failed" /\ error = "ValueError" /\ in_price = <<>> /\ out_price = <<>>)

C3_Witness ==
    /\ pc = "split"
    /\ nwindows = MaxWindows
    /\ len_df = MaxWindows + 3
    /\ out_price[nwindows][2] = len_df - 1

\* C4: every window of length W is cut into an in-sample part followed without
\* gap or overlap by an out-of-sample part, together W rows; the in-sample part
\* is the first insample percent of the window (to the whole row below), the
\* out-of-sample part the rest; all windows have the same two lengths.
C4_WindowPartition ==
    pc = "split" =>
        LET W == window_len(len_df, nwindows)
        IN  \A i \in 1..nwindows :
               /\ out_price[i][1] = in_price[i][2] + 1
               /\ InLen(i) >= 1
               /\ OutLen(i) >= 1
               /\ InLen(i) + OutLen(i) = W
               /\ 100 * InLen(i) <= insample * W
               /\ insample * W - 100 <= 100 * InLen(i)
               /\ InLen(i) = InLen(1)
               /\ OutLen(i) = OutLen(1)

C4_Witness ==
    /\ pc = "split"
    /\ insample = 70
    /\ window_len(len_df, nwindows) = 90
    /\ InLen(1) = 62
    /\ OutLen(nwindows) = 28

\* C5 as stated: consecutive window pairs start exactly one step apart, the same
\* step between every two neighbours, and the step is 25% of the window length
\* (to the whole row below or above).
C5_FixedQuarterStep ==
    pc = "split" =>
        LET W    == window_len(len_df, nwindows)
            step == in_price[2][1] - in_price[1][1]
        IN  /\ \A i \in 1..(nwindows - 1) : in_price[i + 1][1] - in_price[i][1] = step
            /\ W - 3 <= 4 * step
            /\ 4 * step <= W + 3

-----------------------------------------------------------------------------
(* Properties of closed_arange (checked under SpecArange) *)

Last(seq) == seq[Len(seq)]

-----------------------------------------------------------------------------
(* Properties of the request (checked under Spec) *)

AfterApply == {"applied", "out_swept", "out_selected", "cached", "done"}

\* the columns of window i in a portfolio
WindowColumns(pf, i) == {c \in 1..Len(pf.columns) : pf.columns[c].split_idx = i}

\* column c has the optimum of window i: the least value for max_drawdown,
\* the greatest value for every other metric
IsOptimum(pf, i, c) ==
    /\ c \in WindowColumns(pf, i)
    /\ \A d \in WindowColumns(pf, i) :
          IF selected_metric = "max_drawdown"
          THEN pf.metric[c] <= pf.metric[d]
          ELSE pf.metric[c] >= pf.metric[d]

Pair(sel, i) == <<sel[1][i], sel[2][i]>>

\* C1: the out-of-sample portfolio has one column per window; column i is
\* simulated on out-of-sample window i with the combination selected for window
\* i, and that combination is an optimum of the columns simulated on in-sample
\* window i.
C1_ApplyUsesOwnSelection ==
    /\ [](pc \in AfterApply =>
            /\ Len(pf_outsample.columns) = nwindows
            /\ \A i \in 1..nwindows :
                  /\ pf_outsample.columns[i].split_idx = i
                  /\ pf_outsample.columns[i].rows = out_price[i]
                  /\ pf_outsample.columns[i].params = Pair(outsample_parameters, i))
    /\ [][(pc = "selected" /\ pc' = "applied") =>
            \A i \in 1..nwindows :
                \E c \in WindowColumns(pf_insample, i) :
                    /\ IsOptimum(pf_insample, i, c)
                    /\ pf_insample.columns[c].rows = in_price[i]
                    /\ pf_outsample'.columns[i].params = pf_insample.columns[c].params]_vars

C1_Witness ==
    /\ pc = "applied"
    /\ Pair(outsample_parameters, 1) # Pair(outsample_parameters, 2)
    /\ pf_outsample.columns[2].params = Pair(outsample_parameters, 2)

\* C2: in every window the selected combination has the least metric value of
\* the window when the metric is max_drawdown and the greatest value for every
\* other metric, for the in-sample and for the out-of-sample selection (each
\* looked at in the state right after the selection).
PolarityHolds(pf, sel) ==
    \A i \in 1..nwindows :
        \E c \in WindowColumns(pf, i) :
            /\ IsOptimum(pf, i, c)
            /\ pf.columns[c].params = Pair(sel, i)

C2_OptimizerPolarity ==
    /\ pc = "selected" => PolarityHolds(pf_insample, outsample_parameters)
    /\ pc = "out_selected" => PolarityHolds(pf_outsample_optimized, optimal_parameters)

C2_Witness ==
    /\ pc = "selected"
    /\ selected_metric = "max_drawdown"
    /\ \E c, d \in WindowColumns(pf_insample, 1) :
          /\ pf_insample.metric[c] < pf_insample.metric[d]
          /\ pf_insample.columns[c].params = Pair(outsample_parameters, 1)

\* C6: every combination a portfolio column is simulated with, and every
\* selected combination, has its first parameter below its second.
Ordered(pf) == \A c \in 1..Len(pf.columns) : pf.columns[c].params[1] < pf.columns[c].params[2]

OrderedSelection(sel) == sel # <<>> => \A i \in 1..nwindows : sel[1][i] < sel[2][i]

C6_CombinationsAreOrdered ==
    /\ Ordered(pf_insample)
    /\ Ordered(pf_outsample)
    /\ Ordered(pf_outsample_optimized)
    /\ OrderedSelection(outsample_parameters)
    /\ OrderedSelection(optimal_parameters)

C6_Witness ==
    /\ pc = "done"
    /\ selected_strategy = "RSI"
    /\ Len(pf_outsample_optimized.columns) = 3 * nwindows
    /\ Pair(optimal_parameters, 1) = <<22, 24>>

\* C8: the columns of a window are in grid order (lexicographic in the two
\* parameters), and the selected combination is the first column of the window
\* that has the optimum value, for the least-value and the greatest-value rule.
LexLess(a, b) == a[1] < b[1] \/ (a[1] = b[1] /\ a[2] < b[2])

FirstOptimumSelected(pf, sel) ==
    \A i \in 1..nwindows :
        /\ \A c, d \in WindowColumns(pf, i) :
              c < d => LexLess(pf.columns[c].params, pf.columns[d].params)
        /\ \E c \in WindowColumns(pf, i) :
              /\ IsOptimum(pf, i, c)
              /\ \A d \in WindowColumns(pf, i) : IsOptimum(pf, i, d) => c <= d
              /\ pf.columns[c].params = Pair(sel, i)

C8_TiesPickFirstInGridOrder ==
    /\ pc = "selected" => FirstOptimumSelected(pf_insample, outsample_parameters)
    /\ pc = "out_selected" => FirstOptimumSelected(pf_outsample_optimized, optimal_parameters)

C8_Witness ==
    /\ pc = "selected"
    /\ selected_metric = "sharpe_ratio"
    /\ \E c, d \in WindowColumns(pf_insample, 2) :
          /\ c < d
          /\ IsOptimum(pf_insample, 2, c)
          /\ IsOptimum(pf_insample, 2, d)
          /\ pf_insample.columns[c].params = Pair(outsample_parameters, 2)
    /\ \E c \in WindowColumns(pf_insample, 2) : ~IsOptimum(pf_insample, 2, c)

\* what each stage leaves behind
DoneSplit       == in_price # <<>>
DoneInSweep     == pf_insample.columns # <<>>
DoneSelect      == outsample_parameters # <<>>
DoneApply       == pf_outsample.columns # <<>>
DoneOutSweep    == pf_outsample_optimized.columns # <<>>
DoneOutSelect   == optimal_parameters # <<>>
DoneCache       == cache[session_id] # InitialCache[session_id]
DoneAggregate   == outputs.returned

\* C9 as stated: the stages run in the order split, in-sample sweep, select,
\* out-of-sample apply, out-of-sample sweep, aggregate, cache: the cache is
\* written only after the report has been aggregated.
C9_CacheAfterAggregate ==
    /\ DoneCache => DoneAggregate
    /\ DoneAggregate => DoneOutSelect
    /\ DoneOutSelect => DoneOutSweep
    /\ DoneOutSweep => DoneApply
    /\ DoneApply => DoneSelect
    /\ DoneSelect => DoneInSweep
    /\ DoneInSweep => DoneSplit

\* C9 amended: the stages run in the order split, in-sample sweep, select,
\* out-of-sample apply, out-of-sample sweep, cache, aggregate, each at most
\* once; the cache write happens before the report is aggregated, so a request
\* that fails during aggregation has already written its cache entry.
C9_StagesInCodeOrder ==
    /\ [](/\ DoneAggregate => DoneCache
          /\ DoneCache => DoneOutSelect
          /\ DoneOutSelect => DoneOutSweep
          /\ DoneOutSweep => DoneApply
          /\ DoneApply => DoneSelect
          /\ DoneSelect => DoneInSweep
          /\ DoneInSweep => DoneSplit)
    /\ [][/\ DoneSplit => UNCHANGED <<in_price, out_price>>
          /\ DoneInSweep => pf_insample'.columns = pf_insample.columns
          /\ DoneSelect => UNCHANGED outsample_parameters
          /\ DoneApply => UNCHANGED pf_outsample
          /\ DoneOutSweep => UNCHANGED pf_outsample_optimized
          /\ DoneOutSelect => UNCHANGED optimal_parameters
          /\ DoneCache => UNCHANGED cache
          /\ DoneAggregate => UNCHANGED outputs]_vars

C9_Witness ==
    /\ pc = "done"
    /\ DoneAggregate
    /\ DoneCache
    /\ session_id = "s1"

\* C10: a request that has returned has written the cache entry of its own
\* session id; the value is the pickled out-of-sample portfolio of the selected
\* parameters (one column per window, window i simulated with the combination
\* selected in-sample for window i), and the entry's timeout is the positive,
\* finite 7200 seconds.
C10_CompletedRequestCachedItsPortfolio ==
    outputs.returned =>
        /\ cache[session_id].present
        /\ cache[session_id].timeout = 7200
        /\ cache[session_id].timeout > 0
        /\ Len(cache[session_id].value.pickle) = nwindows
        /\ \A i \in 1..nwindows :
              /\ cache[session_id].value.pickle[i].split_idx = i
              /\ cache[session_id].value.pickle[i].rows = out_price[i]
              /\ cache[session_id].value.pickle[i].params = Pair(outsample_parameters, i)

C10_Witness ==
    /\ outputs.returned
    /\ session_id = "s1"
    /\ cache["s1"].value # InitialCache["s1"].value
    /\ Len(pf_outsample_optimized.columns) > nwindows

-----------------------------------------------------------------------------
(* Properties of two concurrent requests (checked under SpecConcurrent) *)

Written     == pc \in {"cached", "done"}
OtherWritten == other.pc \in {"cached", "done"}

\* C11: two requests with different session ids, their steps interleaved in
\* every order.  A request's cache write leaves the entries of all other keys
\* as they are; an entry disappears only by expiring; a read under a key after
\* that key's write that finds the entry returns the portfolio of the request
\* that wrote under the key; and a step of one request changes no local
\* variable of the other.
C11_DistinctKeysDoNotInterfere ==
    /\ [](session_id # other.session_id)
    /\ [][(pc = "out_selected" /\ pc' = "cached") =>
             /\ cache'[session_id].value = dumps(pf_outsample)
             /\ \A key \in SessionIds \ {session_id} : cache'[key] = cache[key]]_vars
    /\ [][(other.pc = "computed" /\ other'.pc = "cached") =>
             /\ cache'[other.session_id].value = dumps(other.pf_outsample)
             /\ \A key \in SessionIds \ {other.session_id} : cache'[key] = cache[key]]_vars
    /\ [][\A key \in SessionIds :
             (cache[key].present /\ ~cache'[key].present) => UNCHANGED <<locals, other, got>>]_vars
    /\ [][(~got.read /\ got'.read /\ got'.hit) =>
             /\ (got'.key = session_id /\ Written) => got'.value = dumps(pf_outsample)
             /\ (got'.key = other.session_id /\ OtherWritten) => got'.value = dumps(other.pf_outsample)]_vars
    /\ [][/\ other' # other => UNCHANGED locals
          /\ ~(UNCHANGED locals) => other' = other]_vars

C11_Witness ==
    /\ pc = "done"
    /\ other.pc = "done"
    /\ session_id = "s1"
    /\ got.read
    /\ got.key = "s1"
    /\ got.hit
    /\ got.value = dumps(pf_outsample)
    /\ cache["s2"].present
    /\ cache["s2"].value = dumps(other.pf_outsample)
    /\ cache["s1"].value # cache["s2"].value

-----------------------------------------------------------------------------
(* Properties of requests on short series (checked under SpecShort) *)

Simulated == {"in_swept", "selected", "applied", "out_swept", "out_selected", "cached", "done"}

\* the windows have fewer rows than the largest period of the grid
WindowsShorterThanLargestPeriod ==
    /\ selected_strategy \in Crossovers
    /\ parameter_values # <<>>
    /\ window_len(len_df, nwindows) < Last(parameter_values)

\* C12 as stated: a request on an empty series, or on a series too short to
\* give windows as long as the largest period of the grid, ends in an error
\* before any simulation has run and without a cache write.
C12_ShortSeriesRejected ==
    (len_df = 0 \/ WindowsShorterThanLargestPeriod) =>
        /\ pc \notin Simulated
        /\ pf_insample = NoPortfolio
        /\ cache = InitialCache
        /\ ~outputs.returned

-----------------------------------------------------------------------------
(* Properties of out-of-range requests (checked under SpecOutOfRange) *)

\* C13 as stated: a request with a window count outside 4..15 or an in-sample
\* percentage outside 50..90 is rejected before the series is split: it never
\* has windows, never simulates and never writes the cache.
C13_OutOfRangeRejected ==
    (nwindows \notin MinWindows..MaxWindows \/ insample \notin 50..90) =>
        /\ pc \in {"start", "failed"}
        /\ in_price = <<>>
        /\ out_price = <<>>
        /\ pf_insample = NoPortfolio
        /\ cache = InitialCache

-----------------------------------------------------------------------------
(* Properties of requests with a degenerate parameter range (checked under Spec) *)

\* C14 as stated: a request whose range minimum is not below its range maximum
\* is rejected before any computation: the series is never split into windows
\* and nothing is simulated.
C14_DegenerateRangeRejectedFirst ==
    selected_range[1] >= selected_range[2] =>
        /\ pc \in {"start", "failed"}
        /\ in_price = <<>>
        /\ out_price = <<>>
        /\ pf_insample = NoPortfolio

-----------------------------------------------------------------------------
(* Properties of the strategy dispatch (checked under Spec) *)

\* C19 as stated: a MACD request on a series long enough to be split is handled
\* like the other strategies: it does not fail, and once the report is aggregated
\* it has been through the sweep, the selection and the out-of-sample apply.
C19_MacdCompletes ==
    (selected_strategy = "MACD" /\ len_df = MaxLen) =>
        /\ pc # "failed"
        /\ pc = "done" => (DoneInSweep /\ DoneSelect /\ DoneApply)

-----------------------------------------------------------------------------
\* One request whose report is looked at: a grid of three combinations, every
\* optimisation metric, and a simulator whose total return is largest for any
\* one of the combinations.
ReportSimulators(metric) ==
    IF metric = "total_return"
    THEN {PlainSimulator}
    ELSE {[PlainSimulator EXCEPT !.total_return = OneHot(hot)] : hot \in 1..MaxCombs}

InitReport ==
    /\ NoState
    /\ ca_args = <<0, 1, 1>>
    /\ ca_result = NotCalled
    /\ other = NoOther
    /\ got = NoRead
    /\ NoViews
    /\ selected_timeframe = Daily
    /\ time_interval = NoInterval
    /\ indicators = NoIndicators
    /\ signals = NoSignals
    /\ n_clicks = 1
    /\ session_id = "s1"
    /\ selected_strategy = "SMA Crossover"
    /\ nwindows = MinWindows
    /\ insample = 70
    /\ len_df = MaxLen
    /\ selected_range = <<10, 30>>
    /\ selected_metric \in Metrics
    /\ simulator \in ReportSimulators(selected_metric)
    /\ cache = InitialCache

NextReport == Next

SpecReport == InitReport /\ [][NextReport]_vars

-----------------------------------------------------------------------------
\* Lines 99-100, 116-117 and 137-138 on their own: the entries and exits of one
\* column.  An indicator series is a sequence of levels; NaN (the bars before
\* the indicator's period is filled) is kept as -1.
Nan == 0 - 1
IsNan(x) == x < 0

\* vectorbt crossed_above_1d_nb(arr1, arr2, wait=0): the loop's state after bar i
RECURSIVE crossed_above_state(_, _, _)
crossed_above_state(arr1, arr2, i) ==
    IF i = 0 THEN [was_below |-> FALSE, crossed_ago |-> 0 - 1, out |-> FALSE]
    ELSE LET before == crossed_above_state(arr1, arr2, i - 1) IN
         IF IsNan(arr1[i]) \/ IsNan(arr2[i])
         THEN [was_below |-> FALSE, crossed_ago |-> 0 - 1, out |-> FALSE]
         ELSE IF arr1[i] > arr2[i]
         THEN IF before.was_below
              THEN [was_below |-> TRUE, crossed_ago |-> before.crossed_ago + 1,
                    out |-> (before.crossed_ago + 1 = 0)]
              ELSE [before EXCEPT !.out = FALSE]
         ELSE IF arr1[i] = arr2[i]
         THEN [was_below |-> before.was_below, crossed_ago |-> 0 - 1, out |-> FALSE]
         ELSE [was_below |-> TRUE, crossed_ago |-> 0 - 1, out |-> FALSE]

\* real_crossed_above(other): self goes above other
real_crossed_above(self, arr) ==
    [i \in 1..Len(self) |-> crossed_above_state(self, arr, i).out]

\* the wrong crossed_below: the arrays are not swapped
real_crossed_below_unswapped(self, arr) ==
    [i \in 1..Len(self) |-> crossed_above_state(self, arr, i).out]

\* real_crossed_below(other): other goes above self
real_crossed_below(self, arr) ==
    [i \in 1..Len(self) |-> crossed_above_state(arr, self, i).out]

\* a threshold is broadcast to the length of the series
Broadcast(value, n) == [i \in 1..n |-> value]

\* lines 99-100 and 116-117 (crossovers), 137-138 (RSI)
signals_of(ind) ==
    IF ind.strategy \in Crossovers
    THEN [called  |-> TRUE,
          entries |-> real_crossed_above(ind.real, ind.slow_real),
          exits   |-> real_crossed_below(ind.real, ind.slow_real)]
    ELSE [called  |-> TRUE,
          entries |-> real_crossed_below(ind.real,
                          Broadcast(ind.entry_exit_values[1], Len(ind.real))),
          exits   |-> real_crossed_above(ind.real,
                          Broadcast(ind.entry_exit_values[2], Len(ind.real)))]

CallSignals ==
    /\ ~signals.called
    /\ signals' = signals_of(indicators)
    /\ UNCHANGED <<locals, cache, ca_args, ca_result, other, got, selected_timeframe,
                   time_interval, indicators, views>>

\* number of bars of the window the signals are computed on
SignalLen == 4

\* the indicator series of the given number of bars that are NaN on their first nans bars
RealSeries(bars, nans) ==
    {[i \in 1..bars |-> IF i <= nans THEN Nan ELSE tail[i - nans]] :
        tail \in [1..(bars - nans) -> 0..MaxLevel]}

\* a crossover column has a fast and a slow series, the slow one with the
\* longer period and so with more leading NaNs; an RSI column has one series
\* and an entry value below the exit value (line 131: combinations)
IndicatorChoices(bars) ==
    UNION {{[strategy |-> "SMA Crossover", real |-> fast, slow_real |-> slow,
             entry_exit_values |-> <<0, 0>>] :
                fast \in RealSeries(bars, pair[1]), slow \in RealSeries(bars, pair[2])} :
           pair \in {p \in (0..(bars - 1)) \X (0..(bars - 1)) : p[1] < p[2]}}
    \cup {[strategy |-> "EMA Crossover", real |-> fast, slow_real |-> slow,
           entry_exit_values |-> <<0, 0>>] :
                fast \in RealSeries(bars, 0), slow \in RealSeries(bars, 1)}
    \cup UNION {{[strategy |-> "RSI", real |-> rsi, slow_real |-> <<>>,
                  entry_exit_values |-> values] :
                     rsi \in RealSeries(bars, nans),
                     values \in {v \in (0..MaxLevel) \X (0..MaxLevel) : v[1] < v[2]}} :
                nans \in 0..(bars - 1)}

InitSignals ==
    /\ NoState
    /\ ca_args = <<0, 1, 1>>
    /\ ca_result = NotCalled
    /\ other = NoOther
    /\ got = NoRead
    /\ NoViews
    /\ selected_timeframe = Daily
    /\ simulator = PlainSimulator
    /\ time_interval = NoInterval
    /\ indicators \in IndicatorChoices(SignalLen)
    /\ signals = NoSignals
    /\ n_clicks = 1
    /\ session_id = "s1"
    /\ selected_strategy = indicators.strategy
    /\ nwindows = MinWindows
    /\ insample = 70
    /\ len_df = MaxLen
    /\ selected_range = <<10, 30>>
    /\ selected_metric = "total_return"
    /\ cache = InitialCache

NextSignals == CallSignals

SpecSignals == InitSignals /\ [][NextSignals]_vars

-----------------------------------------------------------------------------
(* Properties of the time interval (checked under SpecTimeframe) *)

\* minutes in one unit
UnitMinutes(unit) == CASE unit = "m" -> 1 [] unit = "h" -> 60 [] unit = "d" -> 24 * 60 [] OTHER -> 0

\* C18 as stated: for '1d' the time per bar given to the simulator is '1d'; for
\* an intraday timeframe it is the bar's real duration times 24/6.5 (compared in
\* ten-thousandths of a minute).
C18_TimeframeCorrection ==
    time_interval.called =>
        IF selected_timeframe = Daily
        THEN time_interval.value = TenThousand /\ time_interval.unit = "d"
        ELSE time_interval.value * UnitMinutes(time_interval.unit) =
                RoundHalfEven(selected_timeframe.count * UnitMinutes(selected_timeframe.unit)
                                  * 240 * TenThousand, 65)

-----------------------------------------------------------------------------
(* Properties of the signals (checked under SpecSignals) *)

\* C20: in the signals of every column (a crossover with the fast series
\* against the slow one, or RSI with entry value < exit value), no bar has an
\* entry and an exit at once.
C20_NoSimultaneousEntryExit ==
    signals.called =>
        /\ Len(signals.entries) = Len(indicators.real)
        /\ Len(signals.exits) = Len(indicators.real)
        /\ \A i \in 1..Len(indicators.real) : ~(signals.entries[i] /\ signals.exits[i])

\* signals with at least one entry and at least one exit
C20_Witness ==
    /\ signals.called
    /\ \E i \in 1..Len(signals.entries) : signals.entries[i]
    /\ \E i \in 1..Len(signals.exits) : signals.exits[i]

-----------------------------------------------------------------------------
(* Properties of the report (checked under SpecReport) *)

\* the column of the out-of-sample grid for window k and the reported optimal parameters
ReportedOptimalColumn(k) ==
    CHOOSE c \in group(pf_outsample_optimized, k) :
        pf_outsample_optimized.columns[c].params = outputs.comparison_df[k].params

\* C15 as stated: in every row of the comparison table the optimal return is the
\* out-of-sample total return of the optimal parameters reported in that row.
C15_OptimalReturnOfReportedParameters ==
    outputs.returned =>
        \A k \in 1..nwindows :
            outputs.comparison_df[k].optimal_return.value =
                Pct2(grid_returns[ReportedOptimalColumn(k)], 1)

\* C16: both tables of a completed request have nwindows rows; row k is window
\* k, and its parameters and every one of its statistics come from window k only.
C16_RowsAreWindows ==
    outputs.returned =>
        /\ Len(outputs.outsample_df) = nwindows
        /\ Len(outputs.comparison_df) = nwindows
        /\ \A k \in 1..nwindows :
              /\ outputs.outsample_df[k].Window = k
              /\ outputs.outsample_df[k].stats.split_idx = k
              /\ outputs.outsample_df[k].stats.rows = out_price[k]
              /\ outputs.outsample_df[k].stats.params = outputs.outsample_df[k].params
              /\ outputs.outsample_df[k].params =
                    <<outsample_parameters[1][k], outsample_parameters[2][k]>>
              /\ outputs.outsample_df[k].return = Pct2(window_stats[1][k], 1)
              /\ outputs.outsample_df[k].max_drawdown = Pct2(window_stats[3][k], 1)
              /\ outputs.outsample_df[k].sharpe_ratio = Hundredths(window_stats[2][k], 1)
              /\ outputs.comparison_df[k].Window = k
              /\ outputs.comparison_df[k].params =
                    pf_outsample_optimized.columns[
                        optimal_column(pf_outsample_optimized, k, selected_metric)].params
              /\ outputs.comparison_df[k].optimal_return.windows = {k}
              /\ outputs.comparison_df[k].return.windows = {k}
              /\ outputs.comparison_df[k].average_return.windows = {k}
              /\ outputs.comparison_df[k].benchmark_return.windows = {k}

\* a completed report over a grid of several combinations whose windows chose
\* different parameters
C16_Witness ==
    /\ outputs.returned
    /\ Len(pf_outsample_optimized.columns) > nwindows
    /\ \E k \in 1..nwindows : outputs.outsample_df[k].params # outputs.outsample_df[1].params
    /\ \E k \in 1..nwindows : outputs.comparison_df[k].params # outputs.comparison_df[1].params

\* C17 as stated: average return and average max drawdown are the means over the
\* windows as percentages, the average Sharpe ratio is the plain mean, and the
\* annualized return is the mean return times 252 / trading days of a window.
C17_AveragesAreMeans ==
    outputs.returned =>
        /\ outputs.averages.average_return =
              Pct2(SeqSum(window_stats[1], nwindows), nwindows)
        /\ outputs.averages.average_max_drawdown =
              Pct2(SeqSum(window_stats[3], nwindows), nwindows)
        /\ outputs.averages.average_sharpe =
              Hundredths(SeqSum(window_stats[2], nwindows), nwindows)
        /\ outputs.averages.annualized_return =
              RoundHalfEven(SeqSum(window_stats[1], nwindows) * 100 * 252 * 1000,
                            nwindows * outsample_num_days)

-----------------------------------------------------------------------------
(* Properties of overlap_factor and of the window length (checked under SpecSplit) *)

\* the last value of the lookup table, used for nwindows = 7
TableCeiling == factors[Len(factors)]

\* C22 as stated: for nwindows >= 8 the closed form of overlap_factor increases
\* with nwindows and stays strictly below the largest value of the lookup table.
C22_BelowTableCeiling ==
    (pc # "start" /\ nwindows >= 8) =>
        /\ overlap_factor(nwindows) < TableCeiling
        /\ overlap_factor(nwindows) > overlap_factor(nwindows - 1)

\* C22 amended: for nwindows = 8..15 the closed form of overlap_factor increases
\* with nwindows, lies strictly above the largest value of the lookup table and
\* strictly below its own limit 13/18.
C22_AboveTableBelowLimit ==
    (pc # "start" /\ nwindows >= 8) =>
        /\ overlap_factor(nwindows) > TableCeiling
        /\ overlap_factor(nwindows) > overlap_factor(nwindows - 1)
        /\ 18 * overlap_factor(nwindows) < 13 * Million

C22_Witness ==
    /\ pc = "split"
    /\ nwindows = MaxWindows
    /\ overlap_factor(nwindows) > TableCeiling
    /\ window_len(len_df, nwindows) = 35

\* C28 as stated: for every series of at least one row and every window count the
\* window length given to the splitter is at least 1 and at most the series length.
C28_WindowLenWithinSeries ==
    (pc # "start" /\ len_df >= 1) =>
        /\ 1 <= window_len(len_df, nwindows)
        /\ window_len(len_df, nwindows) <= len_df

-----------------------------------------------------------------------------
(* The whole contract of closed_arange (checked under SpecArange) *)

\* start, start + step, ... : every such value below stop (for start < stop)
LatticeBelow(start, stop, step) ==
    [k \in 1..(((stop - start - 1) \div step) + 1) |-> start + (k - 1) * step]

\* C29: for start < stop and step > 0 closed_arange returns a strictly increasing
\* sequence that begins with start and lies in [start, stop]; it is the lattice
\* values below stop followed by stop exactly when stop - start is a multiple of
\* step (and the lattice values alone otherwise); for start >= stop it raises.
C29_ClosedArangeContract ==
    ca_result.called =>
        LET start == ca_args[1]
            stop  == ca_args[2]
            step  == ca_args[3]
            value == ca_result.value
        IN  IF start < stop
            THEN /\ ca_result.raised = "none"
                 /\ Len(value) >= 1
                 /\ value[1] = start
                 /\ \A k \in 1..(Len(value) - 1) : value[k] < value[k + 1]
                 /\ \A k \in 1..Len(value) : start <= value[k] /\ value[k] <= stop
                 /\ (value = LatticeBelow(start, stop, step) \o <<stop>>)
                        <=> ((stop - start) % step = 0)
                 /\ ((stop - start) % step # 0) => value = LatticeBelow(start, stop, step)
            ELSE /\ ca_result.raised # "none"
                 /\ value = <<>>

\* a range whose stop is on the lattice and is appended once
C29_Witness ==
    /\ ca_result.called
    /\ ca_args = <<1, 9, 4>>
    /\ ca_result.raised = "none"
    /\ ca_result.value = <<1, 5, 9>>

-----------------------------------------------------------------------------
(* Properties of the parameter grid (checked under Spec) *)

\* C27 as stated: a range with minimum < maximum gives a grid with at least one
\* valid combination, so once the grid is built the request has a combination to
\* sweep and the in-sample sweep does not fail on an empty grid.
C27_GridHasCombination ==
    (/\ selected_range[1] < selected_range[2]
     /\ selected_strategy \in (Crossovers \cup {"RSI"})
     /\ len_df = MaxLen
     /\ pc \notin {"start", "split"}) =>
        /\ Len(grid_combinations(selected_strategy, parameter_values)) >= 1
        /\ pc # "failed"

-----------------------------------------------------------------------------
(* A request that may fail, next to the cache's expiry and the plotting        *)
(* callback's read.  The requests cover every step that can raise: the split   *)
(* (empty series), the grid (minimum = maximum), the sweep (a grid without a   *)
(* combination, or a strategy without a branch).                               *)

InitFailure ==
    /\ NoState
    /\ NoHarness
    /\ n_clicks = 1
    /\ session_id \in SessionIds
    /\ selected_strategy \in Strategies
    /\ nwindows = MinWindows
    /\ insample = 70
    /\ len_df \in SimLens
    /\ selected_range \in RangeChoices(selected_strategy) \ WideRanges
    /\ selected_metric = "total_return"
    /\ cache = InitialCache

NextFailure ==
    \/ Split
    \/ BuildGrid
    \/ InSampleSweep
    \/ Select
    \/ OutSampleApply
    \/ OutSampleSweep
    \/ OutSampleSelect
    \/ CacheSet
    \/ Aggregate
    \/ \E key \in SessionIds : Expire(key)
    \/ \E key \in SessionIds : ReaderGet(key)
    \/ ReaderReturn

SpecFailure == InitFailure /\ [][NextFailure]_vars

\* C25: up to a request's cache write, and for good when it fails before it, no
\* step of the request changes the cache: an entry only disappears by expiring,
\* and a read after the failure that finds an entry gets the portfolio an
\* earlier request of the session cached.
C25_FailureLeavesCache ==
    /\ [][(pc' \notin {"cached", "done"} /\ cache' # cache) =>
             /\ UNCHANGED locals
             /\ \E key \in SessionIds :
                   cache[key].present /\ cache' = [cache EXCEPT ![key] = NoEntry]]_vars
    /\ [](pc = "failed" =>
             \A key \in SessionIds : cache[key] \in {InitialCache[key], NoEntry})
    /\ [][(pc = "failed" /\ ~got.read /\ got'.read /\ cache[got'.key].present) =>
             /\ got'.hit
             /\ got'.value = InitialCache[got'.key].value]_vars

\* a request of session "s1" failed in its sweep, and the entry the session
\* cached earlier was read
C25_Witness ==
    /\ pc = "failed"
    /\ error = "UnboundLocalError"
    /\ session_id = "s1"
    /\ got.read
    /\ got.key = "s1"
    /\ got.hit
    /\ got.value = dumps(EarlierPortfolio)
    /\ cache["s1"] = InitialCache["s1"]

-----------------------------------------------------------------------------
(* plot_windows (plotting.py), the callback that draws the walk-forward        *)
(* windows of the series the backtest splits                                   *)

\* plotting.py line 141: int((200 / insample) * len(df) / nwindows); on the
\* enumerated inputs the float expression is the exact quotient's floor
window_length(len, n, pct) == (200 * len) \div (pct * n)

\* plotting.py lines 139-144: window length and rolling_split of the plot
PlotWindows ==
    /\ ~window_plot.called
    /\ \E wlen \in {window_length(len_df, nwindows, insample)} :
          \E split \in {rolling_split(len_df, nwindows, insample, wlen)} :
             window_plot' = [called |-> TRUE, raised |-> split.raised,
                             window_length |-> wlen, value |-> split.value]
    /\ UNCHANGED <<pc, error, inputs, in_price, out_price, parameter_values, pf_insample,
                   outsample_parameters, pf_outsample, pf_outsample_optimized, optimal_parameters,
                   cache, outputs, ca_args, ca_result, other, got, selected_timeframe,
                   time_interval, indicators, signals, oracle, first>>

\* the plot and the split of the backtest on the same series, window count and
\* in-sample percentage
InitPlot ==
    /\ NoState
    /\ NoHarness
    /\ n_clicks = 1
    /\ session_id = "s1"
    /\ selected_strategy = "SMA Crossover"
    /\ nwindows \in MinWindows..MaxWindows
    /\ insample \in InsampleChoices
    /\ len_df \in {MaxLen - 60, MaxLen - 1, MaxLen}
    /\ selected_range = <<10, 30>>
    /\ selected_metric = "total_return"
    /\ cache = InitialCache

NextPlot ==
    \/ Split
    \/ PlotWindows

SpecPlot == InitPlot /\ [][NextPlot]_vars

\* C26 as stated: for the same series, window count and in-sample percentage the
\* plot and the backtest compute the same window length and split the series
\* into the same windows.
C26_PlotShowsBacktestWindows ==
    (pc # "start" /\ window_plot.called) =>
        /\ window_plot.window_length = window_len(len_df, nwindows)
        /\ window_plot.raised = error
        /\ pc = "split" =>
              window_plot.value = [i \in 1..nwindows |-> <<in_price[i], out_price[i]>>]

-----------------------------------------------------------------------------
(* The firings of the callback.  Dash calls perform_backtest when the page is  *)
(* loaded and when the session id changes (n_clicks is then still 0, the       *)
(* button never clicked) and on every click of the run button.                 *)

ClickChoices == {0, 1, 2}

InitFiring ==
    /\ NoState
    /\ NoHarness
    /\ n_clicks \in ClickChoices
    /\ session_id \in SessionIds
    /\ selected_strategy \in {"SMA Crossover", "RSI"}
    /\ nwindows = MinWindows
    /\ insample = 70
    /\ len_df \in SimLens
    /\ selected_range \in RangeChoices(selected_strategy) \ WideRanges
    /\ selected_metric = "total_return"
    /\ cache = InitialCache

NextFiring == Next

SpecFiring == InitFiring /\ [][NextFiring]_vars

\* C30: whatever n_clicks is, a firing starts the pipeline and no stage waits for
\* a click: after each stage the next one can be taken.  A request that completed
\* has written the session's cache entry with its own out-of-sample portfolio
\* and returned run_button.loading = False.
C30_EveryFiringRunsThePipeline ==
    /\ pc = "start"        => ENABLED Split
    /\ pc = "split"        => ENABLED BuildGrid
    /\ pc = "grid"         => ENABLED InSampleSweep
    /\ pc = "in_swept"     => ENABLED Select
    /\ pc = "selected"     => ENABLED OutSampleApply
    /\ pc = "applied"      => ENABLED OutSampleSweep
    /\ pc = "out_swept"    => ENABLED OutSampleSelect
    /\ pc = "out_selected" => ENABLED CacheSet
    /\ pc = "cached"       => (ENABLED Aggregate /\ cache[session_id].value = dumps(pf_outsample))
    /\ pc = "done"         => /\ outputs.returned
                              /\ ~outputs.loading
                              /\ cache[session_id].present
                              /\ cache[session_id].value = dumps(pf_outsample)

\* a request of a session without an earlier entry, fired before any click,
\* has written the session's cache entry and returned
C30_Witness ==
    /\ n_clicks = 0
    /\ session_id = "s2"
    /\ ~InitialCache["s2"].present
    /\ pc = "done"
    /\ cache["s2"].present
    /\ cache["s2"].value = dumps(pf_outsample)
    /\ outputs.returned
    /\ ~outputs.loading

-----------------------------------------------------------------------------
(* Two requests of one session at the same time: the second request has the    *)
(* session id of the first and another configuration                           *)

InitSameSession ==
    /\ NoState
    /\ ca_args = <<0, 1, 1>>
    /\ ca_result = NotCalled
    /\ got = NoRead
    /\ NoTimeframe
    /\ n_clicks = 1
    /\ session_id \in SessionIds
    /\ selected_strategy = "SMA Crossover"
    /\ nwindows = MinWindows
    /\ insample = 70
    /\ len_df = MaxLen
    /\ selected_range \in ConcurrentRanges
    /\ selected_metric = "max_drawdown"
    /\ cache = InitialCache
    /\ \E range \in OtherRanges :
          other = [NoOther EXCEPT
                     !.session_id = session_id, !.pc = "start",
                     !.selected_strategy = "RSI", !.selected_range = range, !.selected_metric = "sharpe_ratio",
                     !.nwindows = MinWindows + 1, !.insample = 50, !.len_df = MaxLen]

NextSameSession ==
    \/ Split
    \/ BuildGrid
    \/ InSampleSweep
    \/ Select
    \/ OutSampleApply
    \/ OutSampleSweep
    \/ OutSampleSelect
    \/ CacheSet
    \/ Aggregate
    \/ OtherCompute
    \/ OtherCacheSet
    \/ OtherReturn
    \/ \E key \in SessionIds : ReaderGet(key)
    \/ ReaderReturn

SpecSameSession == InitSameSession /\ [][NextSameSession]_vars

\* C24 as stated: when the second of two requests of one session returns its
\* report, the session's cache entry holds the portfolio of that request, and
\* the plotting callback reads that portfolio from then on.
C24_CacheMatchesLastReport ==
    /\ [][(other.pc = "done" /\ pc = "cached" /\ pc' = "done") =>
             cache'[session_id].value = dumps(pf_outsample)]_vars
    /\ [][(pc = "done" /\ other.pc = "cached" /\ other'.pc = "done") =>
             cache'[session_id].value = dumps(other.pf_outsample)]_vars

-----------------------------------------------------------------------------
(* The same request twice.  The simulator computes a column's statistics from  *)
(* the column's prices and parameters alone, so on the same price series and   *)
(* configuration both runs get the same values from it: they are fixed in      *)
(* oracle before the first run.  The second run is a new firing of the         *)
(* callback: fresh locals, any session id, any n_clicks, and the cache as the  *)
(* first run left it.                                                          *)

\* the series a sweep of the three-combination grid yields in these runs: in
\* the odd windows combination a stands out, in the even windows combination b
\* (0: none does, all combinations tie)
PeakSeries(n) ==
    { [c \in 1..(MaxCombs * n) |->
          IF ((c - 1) \div n) + 1 = (IF ParityOf(((c - 1) % n) + 1) = "odd" THEN a ELSE b)
          THEN 1 ELSE 0] :
      a \in 0..MaxCombs, b \in 0..MaxCombs }

\* lines 40-62: the callback fires again after the request has returned or raised
Rerun ==
    /\ pc \in {"done", "failed"}
    /\ ~first.ran
    /\ first' = [NoFirst EXCEPT !.ran = TRUE, !.session_id = session_id, !.n_clicks = n_clicks,
                                !.pc = pc, !.error = error,
                                !.outsample_parameters = outsample_parameters,
                                !.outputs = outputs]
    /\ session_id' \in SessionIds
    /\ n_clicks' \in ClickChoices
    /\ pc' = "start"
    /\ error' = "none"
    /\ in_price' = <<>>
    /\ out_price' = <<>>
    /\ parameter_values' = <<>>
    /\ pf_insample' = NoPortfolio
    /\ outsample_parameters' = <<>>
    /\ pf_outsample' = NoPortfolio
    /\ pf_outsample_optimized' = NoPortfolio
    /\ optimal_parameters' = <<>>
    /\ outputs' = NoOutputs
    /\ UNCHANGED <<selected_strategy, nwindows, insample, len_df, selected_range, selected_metric,
                   simulator, cache, ca_args, ca_result, other, got, selected_timeframe,
                   time_interval, indicators, signals, window_plot, oracle>>

InitRerun ==
    /\ NoState
    /\ ca_args = <<0, 1, 1>>
    /\ ca_result = NotCalled
    /\ other = NoOther
    /\ got = NoRead
    /\ window_plot = NoPlot
    /\ first = NoFirst
    /\ simulator = PlainSimulator
    /\ selected_timeframe = Daily
    /\ time_interval = NoInterval
    /\ indicators = NoIndicators
    /\ signals = NoSignals
    /\ n_clicks = 1
    /\ session_id \in SessionIds
    /\ selected_strategy = "SMA Crossover"
    /\ nwindows = MinWindows
    /\ insample = 70
    /\ len_df \in SimLens
    /\ selected_range = <<10, 30>>
    /\ selected_metric = "total_return"
    /\ cache = InitialCache
    /\ \E ins \in PeakSeries(nwindows), outs \in PeakSeries(nwindows) :
          oracle = [insample |-> ins, outsample |-> outs]

NextRerun ==
    \/ Split
    \/ BuildGrid
    \/ InSampleSweep
    \/ Select
    \/ OutSampleApply
    \/ OutSampleSweep
    \/ OutSampleSelect
    \/ CacheSet
    \/ Aggregate
    \/ Rerun

SpecRerun == InitRerun /\ [][NextRerun]_vars

\* C21: a second run on the same series with the same configuration ends as the
\* first one did and returns the same tables, averages and loading flag,
\* whatever its session id and its n_clicks are and whatever the earlier
\* request left in the cache.
C21_RerunGivesSameReport ==
    (first.ran /\ pc \in {"done", "failed"}) =>
        /\ pc = first.pc
        /\ error = first.error
        /\ outputs = first.outputs

\* the second run, under another session id and another n_clicks, returned the
\* tables of the first
C21_Witness ==
    /\ first.ran
    /\ pc = "done"
    /\ session_id # first.session_id
    /\ n_clicks # first.n_clicks
    /\ cache[first.session_id].present
    /\ outputs.returned
    /\ outputs = first.outputs
    /\ \E k \in 1..nwindows : outputs.outsample_df[k].params # outputs.outsample_df[1].params

-----------------------------------------------------------------------------
(* The same request on two price series that agree on the rows of one          *)
(* in-sample window.  A column of the in-sample sweep is simulated on the rows *)
(* of its own window, so the second run gets the first run's statistics for    *)
(* the columns of the kept window and any statistics for all other columns and *)
(* for the out-of-sample windows.                                              *)

\* lines 40-62: the callback fires again, on prices changed outside the
\* in-sample rows of window kept
RerunOnChangedPrices(kept) ==
    /\ pc = "applied"
    /\ ~first.ran
    /\ first' = [NoFirst EXCEPT !.ran = TRUE, !.kept = kept, !.session_id = session_id,
                                !.n_clicks = n_clicks, !.pc = pc, !.error = error,
                                !.outsample_parameters = outsample_parameters]
    /\ \E changed \in MetricSeries(MaxCombs, nwindows) :
          oracle' = [insample  |-> [c \in 1..(MaxCombs * nwindows) |->
                                      IF ((c - 1) % nwindows) + 1 = kept
                                      THEN oracle.insample[c]
                                      ELSE changed[c]],
                     outsample |-> <<>>]
    /\ pc' = "start"
    /\ error' = "none"
    /\ in_price' = <<>>
    /\ out_price' = <<>>
    /\ parameter_values' = <<>>
    /\ pf_insample' = NoPortfolio
    /\ outsample_parameters' = <<>>
    /\ pf_outsample' = NoPortfolio
    /\ UNCHANGED <<inputs, pf_outsample_optimized, optimal_parameters, cache, outputs,
                   ca_args, ca_result, other, got, selected_timeframe, time_interval,
                   indicators, signals, window_plot>>

InitLookAhead ==
    /\ NoState
    /\ ca_args = <<0, 1, 1>>
    /\ ca_result = NotCalled
    /\ other = NoOther
    /\ got = NoRead
    /\ window_plot = NoPlot
    /\ first = NoFirst
    /\ simulator = PlainSimulator
    /\ selected_timeframe = Daily
    /\ time_interval = NoInterval
    /\ indicators = NoIndicators
    /\ signals = NoSignals
    /\ n_clicks = 1
    /\ session_id = "s1"
    /\ selected_strategy = "SMA Crossover"
    /\ nwindows = MinWindows
    /\ insample = 70
    /\ len_df = MaxLen
    /\ selected_range = <<10, 30>>
    /\ selected_metric \in {"total_return", "max_drawdown"}
    /\ cache = InitialCache
    /\ \E ins \in PeakSeries(nwindows) : oracle = [insample |-> ins, outsample |-> <<>>]

NextLookAhead ==
    \/ Split
    \/ BuildGrid
    \/ InSampleSweep
    \/ Select
    \/ OutSampleApply
    \/ \E kept \in 1..nwindows : RerunOnChangedPrices(kept)

SpecLookAhead == InitLookAhead /\ [][NextLookAhead]_vars

\* C23: in the run on the changed prices the combination selected for the kept
\* window, and applied to its out-of-sample window, is the one the first run
\* selected for it.
C23_SelectionDependsOnOwnWindow ==
    (first.ran /\ pc \in {"selected", "applied"}) =>
        /\ outsample_parameters[1][first.kept] = first.outsample_parameters[1][first.kept]
        /\ outsample_parameters[2][first.kept] = first.outsample_parameters[2][first.kept]
        /\ pc = "applied" =>
              pf_outsample.columns[first.kept].params =
                  <<first.outsample_parameters[1][first.kept],
                    first.outsample_parameters[2][first.kept]>>

\* the changed prices changed the selection of another window
C23_Witness ==
    /\ first.ran
    /\ pc = "applied"
    /\ pf_outsample.columns[first.kept].split_idx = first.kept
    /\ \E j \in 1..nwindows :
          /\ j # first.kept
          /\ pf_outsample.columns[j].params #
                <<first.outsample_parameters[1][j], first.outsample_parameters[2][j]>>

=============================================================================
